---- MODULE Spec2Model ----
(***************************************************************************)
(* Project dashboard (project_dashboard/app.py): the request handlers over *)
(* the relational store, the authorization evaluator and the sprint        *)
(* generator.                                                              *)
(*                                                                         *)
(* Dates are day ordinals (date.toordinal() >= 1); 0 stands for None.      *)
(* Row ids are >= 1; 0 stands for a NULL foreign key (and is the form's    *)
(* "No Sprint" choice).  An optional integer is <<>> (None) or <<n>>.      *)
(***************************************************************************)
EXTENDS Integers, Sequences, FiniteSets, TLC

\* ------------------------------------------------------------------ bounds
NumUsers == 2
MaxDay == 2
MaxSprintLen == 2
MaxTasks == 1
MaxSubtasks == 1
BuildMaxDay == 5
BuildMaxLen == 3
MaxSubtaskCount == 50
MaxParamLen == 4
CalendarFirstDay == 30
CalendarSpan == 4
NumRequests == 2

\* ------------------------------------------------------- program constants
DefaultSprintLength == 7
MinSprintLength == 1
MaxSprintLength == 60

Users == 1..NumUsers
\* The model follows one project row through creation, deletion and
\* re-creation: with a single row, SQLite hands out id 1 again.
ProjectIds == {1}
Days == 1..MaxDay
NoDate == 0
NoSprint == 0
NoUser == 0
NoProject == 0
Requests == 1..NumRequests
None == <<>>
Some(n) == <<n>>
Statuses == {"todo", "in_progress", "done"}

VARIABLES
    projects,      \* id -> [user_id, start_date, end_date, sprint_length_days, members]
    perms,         \* <<project_id, user_id>> -> can_edit_tasks
    sprints,       \* id -> [project_id, index, name, description, start_date, end_date]
    tasks,         \* id -> [project_id, status, completed, locked, sprint_id]
    subtasks,      \* id -> [task_id, completed]
    current_user,  \* the logged-in user of the session that issues the next request
    flash,         \* the last response to current_user: the category of its flashed message
                   \* (success, danger, warning, info), json_<code> for a JSON
                   \* answer, form_errors for a re-rendered form, none when
                   \* nothing was flashed; locked/unlocked and subtask_completed/
                   \* subtask_incomplete are the messages of the two toggles,
                   \* which name the new value; generated and unable are the two
                   \* messages generate_sprints gives after its delete:
                   \* "n sprint(s) generated." and "Unable to generate sprints
                   \* with the current settings."
    call,          \* the argument of a function taken alone: the project handed to
                   \* build_sprints, or the subtask counts of a task
    ret,           \* what the function returned for it: <<>> before the call, <<result>> after
    pending        \* request -> the project whose sprints the request is generating
                   \* (it has committed its delete and not yet its insert), or NoProject

store == <<projects, perms, sprints, tasks, subtasks>>
vars == <<projects, perms, sprints, tasks, subtasks, current_user, flash, call, ret, pending>>

\* ----------------------------------------------------------------- helpers
Min(a, b) == IF a <= b THEN a ELSE b

Max(a, b) == IF a >= b THEN a ELSE b

MaxOf(S) == CHOOSE x \in S : \A y \in S : y <= x

\* SQLite rowid allocation for an INTEGER PRIMARY KEY: one past the largest id.
NextId(table) == IF DOMAIN table = {} THEN 1 ELSE MaxOf(DOMAIN table) + 1

Put(f, k, v) == [x \in DOMAIN f \cup {k} |-> IF x = k THEN v ELSE f[x]]

Drop(f, S) == [x \in DOMAIN f \ S |-> f[x]]

Truthy(opt) == opt # None /\ opt[1] # 0

\* -------------------------------------------------- authorization evaluator
is_project_member(project, user) ==
    project.user_id = user \/ user \in project.members

get_member_permissions(project_id, user_id) ==
    IF <<project_id, user_id>> \in DOMAIN perms
    THEN Some(perms[<<project_id, user_id>>])
    ELSE None

user_can_edit_tasks_ignoring_flag(project_id, user) ==
    LET project == projects[project_id] IN
    IF project.user_id = user THEN TRUE
    ELSE IF user \notin project.members THEN FALSE
    ELSE get_member_permissions(project_id, user) # None

user_can_edit_tasks(project_id, user) ==
    LET project == projects[project_id] IN
    IF project.user_id = user THEN TRUE
    ELSE IF user \notin project.members THEN FALSE
    ELSE LET permissions == get_member_permissions(project_id, user) IN
         permissions # None /\ permissions[1]

user_can_modify_task_ignoring_lock(task_id, user) ==
    LET task == tasks[task_id] IN
    IF projects[task.project_id].user_id = user THEN TRUE
    ELSE user_can_edit_tasks(task.project_id, user)

user_can_modify_task(task_id, user) ==
    LET task == tasks[task_id] IN
    IF projects[task.project_id].user_id = user THEN TRUE
    ELSE IF task.locked THEN FALSE
    ELSE user_can_edit_tasks(task.project_id, user)

\* --------------------------------------------------------- sprint generator
\* The while loop of build_sprints: one sprint per iteration.
RECURSIVE sprint_loop(_, _, _, _, _)
sprint_loop(project, sprint_length, current_start, index, acc) ==
    IF current_start <= project.end_date
    THEN LET current_end == Min(current_start + (sprint_length - 1), project.end_date) IN
         sprint_loop(project, sprint_length, current_end + 1, index + 1,
                     Append(acc, [index |-> index, start_date |-> current_start,
                                  end_date |-> current_end]))
    ELSE acc

RECURSIVE sprint_loop_unclamped(_, _, _, _, _)
sprint_loop_unclamped(project, sprint_length, current_start, index, acc) ==
    IF current_start <= project.end_date
    THEN LET current_end == current_start + (sprint_length - 1) IN
         sprint_loop_unclamped(project, sprint_length, current_end + 1, index + 1,
                     Append(acc, [index |-> index, start_date |-> current_start,
                                  end_date |-> current_end]))
    ELSE acc

build_sprints_dates_only_if_both_absent(project) ==
    IF (project.start_date = NoDate /\ project.end_date = NoDate)
       \/ ~Truthy(project.sprint_length_days)
    THEN <<>>
    ELSE IF project.sprint_length_days[1] < 1 THEN <<>>
    ELSE sprint_loop(project, project.sprint_length_days[1], project.start_date, 1, <<>>)

build_sprints_unclamped(project) ==
    IF project.start_date = NoDate \/ project.end_date = NoDate
       \/ ~Truthy(project.sprint_length_days)
    THEN <<>>
    ELSE IF project.sprint_length_days[1] < 1 THEN <<>>
    ELSE sprint_loop_unclamped(project, project.sprint_length_days[1],
                               project.start_date, 1, <<>>)

build_sprints(project) ==
    IF project.start_date = NoDate \/ project.end_date = NoDate
       \/ ~Truthy(project.sprint_length_days)
    THEN <<>>
    ELSE IF project.sprint_length_days[1] < 1 THEN <<>>
    ELSE sprint_loop(project, project.sprint_length_days[1], project.start_date, 1, <<>>)

\* ----------------------------------------------------------------- calendar
\* datetime.date in the proleptic Gregorian calendar; a date is its ordinal
\* (1 January of year 1 is day 1).
is_leap(year) == year % 4 = 0 /\ (year % 100 # 0 \/ year % 400 = 0)

\* calendar.monthrange(year, month)[1]
days_in_month(year, month) ==
    IF month = 2 THEN (IF is_leap(year) THEN 29 ELSE 28)
    ELSE IF month \in {4, 6, 9, 11} THEN 30 ELSE 31

days_before_year(year) ==
    LET y == year - 1 IN y * 365 + (y \div 4) - (y \div 100) + (y \div 400)

RECURSIVE days_before_month(_, _)
days_before_month(year, month) ==
    IF month = 1 THEN 0
    ELSE days_before_month(year, month - 1) + days_in_month(year, month - 1)

\* date(year, month, day) raises ValueError outside MINYEAR..MAXYEAR and 1..12.
date_valid(year, month) == year >= 1 /\ year <= 9999 /\ month >= 1 /\ month <= 12

date(year, month, day) == days_before_year(year) + days_before_month(year, month) + day

RECURSIVE year_from(_, _)
year_from(ordinal, year) ==
    IF ordinal <= days_before_year(year + 1) THEN year ELSE year_from(ordinal, year + 1)

RECURSIVE month_from(_, _, _)
month_from(day_of_year, year, month) ==
    IF day_of_year <= days_before_month(year, month) + days_in_month(year, month)
    THEN month ELSE month_from(day_of_year, year, month + 1)

\* d.year and d.month
year_of(ordinal) == year_from(ordinal, 1)

month_of(ordinal) ==
    month_from(ordinal - days_before_year(year_of(ordinal)), year_of(ordinal), 1)

shift_month(year, month, delta) ==
    LET new_month == month + delta IN
    [year |-> year + ((new_month - 1) \div 12), month |-> ((new_month - 1) % 12) + 1]

\* A query string is a sequence of characters.
Digits == {"0", "1", "2"}

digit_value(c) == CASE c = "0" -> 0 [] c = "1" -> 1 [] c = "2" -> 2

\* str.split('-'): the pieces between the hyphens, empty ones included.
RECURSIVE split(_, _, _, _)
split(string, i, piece, parts) ==
    IF i > Len(string) THEN Append(parts, piece)
    ELSE IF string[i] = "-" THEN split(string, i + 1, <<>>, Append(parts, piece))
    ELSE split(string, i + 1, Append(piece, string[i]), parts)

RECURSIVE decimal_value(_, _, _)
decimal_value(string, i, acc) ==
    IF i > Len(string) THEN acc
    ELSE decimal_value(string, i + 1, 10 * acc + digit_value(string[i]))

\* int(string): None stands for ValueError.
int(string) ==
    IF string # <<>> /\ \A i \in 1..Len(string) : string[i] \in Digits
    THEN Some(decimal_value(string, 1, 0))
    ELSE None

\* The year and month the request asks for: the reference date's, overwritten
\* by what was parsed before int() or parts[1] raised.
requested_month(ref_date, month_param) ==
    LET parts == split(month_param, 1, <<>>, <<>>)
        reference == [year |-> year_of(ref_date), month |-> month_of(ref_date)]
    IN  IF month_param = <<>> THEN reference
        ELSE IF int(parts[1]) = None THEN reference
        ELSE IF Len(parts) < 2 THEN [reference EXCEPT !.year = int(parts[1])[1]]
        ELSE IF int(parts[2]) = None THEN [reference EXCEPT !.year = int(parts[1])[1]]
        ELSE [year |-> int(parts[1])[1], month |-> int(parts[2])[1]]

\* The month shown: the requested one unless date(year, month, 1) raises.
displayed_month(ref_date, month_param) ==
    LET asked == requested_month(ref_date, month_param) IN
    IF date_valid(asked.year, asked.month) THEN asked
    ELSE [year |-> year_of(ref_date), month |-> month_of(ref_date)]

add_event_range_unclipped(events, start_date, end_date, month_start, month_end, entry) ==
    IF start_date = NoDate \/ end_date = NoDate THEN events
    ELSE LET days == start_date..end_date IN
         [d \in DOMAIN events \cup days |->
             IF d \in days
             THEN Append(IF d \in DOMAIN events THEN events[d] ELSE <<>>, entry)
             ELSE events[d]]

\* events maps a day to the list of its entries; entry is appended to every
\* day from max(start_date, month_start) to min(end_date, month_end).
add_event_range(events, start_date, end_date, month_start, month_end, entry) ==
    IF start_date = NoDate \/ end_date = NoDate THEN events
    ELSE LET current == Max(start_date, month_start)
             final == Min(end_date, month_end)
             days == current..final
         IN  [d \in DOMAIN events \cup days |->
                 IF d \in days
                 THEN Append(IF d \in DOMAIN events THEN events[d] ELSE <<>>, entry)
                 ELSE events[d]]

RECURSIVE sprint_events(_, _, _, _, _)
sprint_events(rows, i, events, month_start, month_end) ==
    IF i > Len(rows) THEN events
    ELSE sprint_events(rows, i + 1,
             add_event_range(events, rows[i].start_date, rows[i].end_date,
                             month_start, month_end, [type |-> "sprint", index |-> i]),
             month_start, month_end)

RECURSIVE task_events(_, _, _, _, _)
task_events(rows, i, events, month_start, month_end) ==
    IF i > Len(rows) THEN events
    ELSE LET task == rows[i]
             start == IF task.start_date # NoDate THEN task.start_date ELSE task.due_date
             end == IF task.end_date # NoDate THEN task.end_date
                    ELSE IF task.due_date # NoDate THEN task.due_date
                    ELSE task.start_date
         IN  task_events(rows, i + 1,
                 IF start = NoDate \/ end = NoDate THEN events
                 ELSE add_event_range(events, start, end, month_start, month_end,
                                      [type |-> "task", index |-> i]),
                 month_start, month_end)

\* GET /project/<id>/calendar?month=...: request carries the project, its
\* sprints and tasks, the user who asks, the month parameter and today's date.
project_calendar(request) ==
    IF ~is_project_member(request.project, request.user)
    THEN [denied |-> TRUE]
    ELSE LET ref_date == IF request.project.start_date # NoDate
                         THEN request.project.start_date ELSE request.today
             shown == displayed_month(ref_date, request.month_param)
             month_start == date(shown.year, shown.month, 1)
             month_end == date(shown.year, shown.month,
                               days_in_month(shown.year, shown.month))
         IN  [denied |-> FALSE,
              events |-> task_events(request.tasks, 1,
                             sprint_events(request.sprints, 1, <<>>, month_start, month_end),
                             month_start, month_end),
              current_year |-> shown.year,
              current_month |-> shown.month,
              prev_month |-> shift_month(shown.year, shown.month, -1),
              next_month |-> shift_month(shown.year, shown.month, 1)]

\* ------------------------------------------------------ completion percentage
\* Python evaluates (completed / total) * 100 in binary64, whose significand
\* has 53 = 1 + FractionLimbs * 13 bits.  A float x >= 0 is kept as
\* [digits, shift]: digits is a number written in base Limb = 2^13, most
\* significant digit first, the first digit standing for the bits above the
\* 52 fraction bits, and x = digits * 2^(-52 - shift).
Limb == 8192
FractionLimbs == 4

RECURSIVE Pow2(_)
Pow2(k) == IF k = 0 THEN 1 ELSE 2 * Pow2(k - 1)

\* Doubling a until it reaches b: <<n, k>> with n = a * 2^k and b <= n < 2b.
RECURSIVE normalize(_, _, _)
normalize(a, b, k) == IF a >= b THEN <<a, k>> ELSE normalize(2 * a, b, k + 1)

\* Long division in base Limb: the next count digits of r / b for a remainder r < b.
RECURSIVE quotient_digits(_, _, _, _)
quotient_digits(r, b, count, acc) ==
    IF count = 0 THEN [digits |-> acc, rem |-> r]
    ELSE quotient_digits((r * Limb) % b, b, count - 1, Append(acc, (r * Limb) \div b))

\* Carries run from the last digit to the first, which absorbs them.
RECURSIVE carry_up(_, _, _)
carry_up(raw, i, carry) ==
    IF i = 1 THEN <<raw[1] + carry>>
    ELSE carry_up(raw, i - 1, (raw[i] + carry) \div Limb) \o <<(raw[i] + carry) % Limb>>

\* int / int for 0 <= a <= b, b > 0: the correctly rounded quotient.  The
\* quotient's 53 bits are followed by a guard bit and the rest of the
\* remainder; a tie goes to the even significand.
true_divide(a, b) ==
    IF a = 0 THEN [digits |-> <<0, 0, 0, 0, 0>>, shift |-> 0]
    ELSE LET n == normalize(a, b, 0)
             q == quotient_digits(n[1] - b, b, FractionLimbs, <<1>>)
             last == FractionLimbs + 1
             guard == 2 * q.rem >= b
             tail == (2 * q.rem) % b # 0
             odd == q.digits[last] % 2 = 1
             up == guard /\ (tail \/ odd)
         IN  [digits |-> carry_up([q.digits EXCEPT ![last] = @ + (IF up THEN 1 ELSE 0)],
                                  last, 0),
              shift |-> n[2]]

\* The number of binary digits of v.
RECURSIVE bit_length(_)
bit_length(v) == IF v = 0 THEN 0 ELSE 1 + bit_length(v \div 2)

\* float * int for a small int m >= 2: the correctly rounded product.  The
\* exact product has more than 53 bits; the bits below the 53rd are rounded
\* away, a tie going to the even significand.
float_times(x, m) ==
    IF x.digits[1] = 0 THEN x
    ELSE LET last == Len(x.digits)
             product == carry_up([i \in 1..last |-> x.digits[i] * m], last, 0)
             unit == Pow2(bit_length(product[1]) - 1)
             half == unit \div 2
             low == product[last] % unit
             guard == low >= half
             tail == low % half # 0
             odd == (product[last] \div unit) % 2 = 1
             up == guard /\ (tail \/ odd)
         IN  [digits |-> carry_up([product EXCEPT ![last] =
                                      @ - low + (IF up THEN unit ELSE 0)], last, 0),
              shift |-> x.shift]

\* int(x) for a float x >= 0: the fraction is dropped.
int_of_float(x) == x.digits[1] \div Pow2(x.shift)

get_completion_percentage_rounded(total, completed) ==
    IF total = 0 THEN 0
    ELSE (200 * completed + total) \div (2 * total)

\* Task.get_completion_percentage, for self.subtasks.count() = total and
\* self.subtasks.filter_by(completed=True).count() = completed.
get_completion_percentage(total, completed) ==
    IF total = 0 THEN 0
    ELSE int_of_float(float_times(true_divide(completed, total), 100))

\* ------------------------------------------------------------ store queries
SprintsOf(project_id) == {s \in DOMAIN sprints : sprints[s].project_id = project_id}

TasksOf(project_id) == {t \in DOMAIN tasks : tasks[t].project_id = project_id}

SubtasksOf(task_id) == {s \in DOMAIN subtasks : subtasks[s].task_id = task_id}

\* db.session.add_all(sprints): the generated rows get consecutive fresh ids.
add_all_sprints(table, project_id, generated) ==
    LET base == NextId(table) - 1 IN
    [s \in DOMAIN table \cup {base + i : i \in 1..Len(generated)} |->
        IF s \in DOMAIN table THEN table[s]
        ELSE [project_id |-> project_id,
              index |-> generated[s - base].index,
              name |-> <<"Sprint", generated[s - base].index>>,
              description |-> None,
              start_date |-> generated[s - base].start_date,
              end_date |-> generated[s - base].end_date]]

\* get_or_404: a request that names a row that does not exist is answered 404
\* before anything is read or written; the handlers below are the requests
\* that name existing rows.

\* A request that answers without touching the store.
Answer(message) == flash' = message /\ UNCHANGED store

\* ------------------------------------------------------------------ session
\* flask-login loads the user of the session that sends the request; every
\* route below is @login_required, so its current_user is a real user.  The
\* flashed messages are kept in the session: another session that takes over
\* has none of the previous one's.
load_user(user_id) ==
    /\ user_id # current_user
    /\ current_user' = user_id
    /\ flash' = "none"
    /\ UNCHANGED <<store, call, ret, pending>>

\* ----------------------------------------------------------------- projects
\* ProjectForm.validate_on_submit: name is required, a sprint length that is
\* given must lie in 1..60; the date fields carry no validator.
project_form_valid(form) ==
    /\ form.name_given
    /\ (form.sprint_length_days # None =>
            /\ form.sprint_length_days[1] >= MinSprintLength
            /\ form.sprint_length_days[1] <= MaxSprintLength)

create_project(form) ==
    /\ UNCHANGED <<current_user, call, ret, pending>>
    /\ IF ~project_form_valid(form) THEN Answer("form_errors")
       ELSE LET id == NextId(projects)
                project == [user_id |-> current_user,
                            start_date |-> form.start_date,
                            end_date |-> form.end_date,
                            sprint_length_days |->
                                IF Truthy(form.sprint_length_days)
                                THEN form.sprint_length_days
                                ELSE Some(DefaultSprintLength),
                            members |-> {}]
                generated == build_sprints(project)
            IN  /\ id \in ProjectIds
                /\ projects' = Put(projects, id, project)
                /\ sprints' = IF generated # <<>>
                              THEN add_all_sprints(sprints, id, generated)
                              ELSE sprints
                /\ flash' = "success"
                /\ UNCHANGED <<perms, tasks, subtasks>>

\* ProjectForm(obj=project): a date field the request leaves out keeps the
\* project's value (an empty or malformed one fails validation).
edit_project(project_id, form) ==
    /\ UNCHANGED <<current_user, call, ret, pending>>
    /\ project_id \in DOMAIN projects
    /\ IF projects[project_id].user_id # current_user THEN Answer("danger")
       ELSE IF ~project_form_valid(form) THEN Answer("form_errors")
       ELSE /\ projects' = [projects EXCEPT
                   ![project_id].start_date =
                       IF form.start_date = NoDate THEN @ ELSE form.start_date,
                   ![project_id].end_date =
                       IF form.end_date = NoDate THEN @ ELSE form.end_date,
                   ![project_id].sprint_length_days =
                       IF Truthy(form.sprint_length_days)
                       THEN form.sprint_length_days ELSE @]
            /\ flash' = "success"
            /\ UNCHANGED <<perms, sprints, tasks, subtasks>>

detach_tasks_skipped(project_id) == tasks

\* Task.query.filter_by(project_id=project.id).update({Task.sprint_id: None})
detach_tasks(project_id) ==
    [t \in DOMAIN tasks |->
        IF tasks[t].project_id = project_id
        THEN [tasks[t] EXCEPT !.sprint_id = NoSprint]
        ELSE tasks[t]]

generate_sprints(project_id) ==
    /\ UNCHANGED <<current_user, call, ret, pending>>
    /\ project_id \in DOMAIN projects
    /\ LET project == projects[project_id] IN
       IF project.user_id # current_user THEN Answer("danger")
       ELSE IF project.start_date = NoDate \/ project.end_date = NoDate
               \/ ~Truthy(project.sprint_length_days)
       THEN Answer("warning")
       ELSE LET kept == Drop(sprints, SprintsOf(project_id))
                generated == build_sprints(project)
            IN  /\ tasks' = detach_tasks(project_id)
                /\ UNCHANGED <<projects, perms, subtasks>>
                /\ IF generated = <<>>
                   THEN /\ sprints' = kept
                        /\ flash' = "unable"
                   ELSE /\ sprints' = add_all_sprints(kept, project_id, generated)
                        /\ flash' = "generated"

\* generate_sprints as two requests in flight see it: up to its first commit
\* (the checks, the detach and the delete), and from there to its second (the
\* build and the insert).  The project is read again after the first commit.
begin_generate_sprints(request, project_id) ==
    /\ UNCHANGED <<current_user, call, ret>>
    /\ pending[request] = NoProject
    /\ project_id \in DOMAIN projects
    /\ LET project == projects[project_id] IN
       IF project.user_id # current_user THEN Answer("danger") /\ UNCHANGED pending
       ELSE IF project.start_date = NoDate \/ project.end_date = NoDate
               \/ ~Truthy(project.sprint_length_days)
       THEN Answer("warning") /\ UNCHANGED pending
       ELSE /\ tasks' = detach_tasks(project_id)
            /\ sprints' = Drop(sprints, SprintsOf(project_id))
            /\ pending' = [pending EXCEPT ![request] = project_id]
            /\ UNCHANGED <<projects, perms, subtasks, flash>>

finish_generate_sprints(request) ==
    /\ UNCHANGED <<current_user, call, ret>>
    /\ pending[request] # NoProject
    /\ pending[request] \in DOMAIN projects
    /\ pending' = [pending EXCEPT ![request] = NoProject]
    /\ LET generated == build_sprints(projects[pending[request]]) IN
       IF generated = <<>> THEN Answer("unable")
       ELSE /\ sprints' = add_all_sprints(sprints, pending[request], generated)
            /\ flash' = "generated"
            /\ UNCHANGED <<projects, perms, tasks, subtasks>>

\* form.name and form.description are the stripped fields, <<>> when empty.
update_sprint(project_id, sprint_id, form) ==
    /\ UNCHANGED <<current_user, call, ret, pending>>
    /\ project_id \in DOMAIN projects
    /\ IF projects[project_id].user_id # current_user THEN Answer("danger")
       ELSE /\ sprint_id \in DOMAIN sprints
            /\ IF sprints[sprint_id].project_id # project_id THEN Answer("danger")
               ELSE /\ sprints' = [sprints EXCEPT
                           ![sprint_id].name = IF form.name # <<>> THEN form.name ELSE @,
                           ![sprint_id].description =
                               IF form.description # <<>> THEN Some(form.description)
                               ELSE None]
                    /\ flash' = "success"
                    /\ UNCHANGED <<projects, perms, tasks, subtasks>>

\* db.session.delete(project): tasks and their subtasks go with it
\* (cascade='all, delete-orphan'), and so do the rows of project_members.
delete_project_rows(project_id) ==
    /\ projects' = Drop(projects, {project_id})
    /\ tasks' = Drop(tasks, TasksOf(project_id))
    /\ subtasks' = Drop(subtasks, {s \in DOMAIN subtasks :
                                      subtasks[s].task_id \in TasksOf(project_id)})

\* The Sprint and ProjectMemberPermission rows of a deleted project.
delete_project_owned(project_id) ==
    /\ sprints' = Drop(sprints, SprintsOf(project_id))
    /\ perms' = Drop(perms, {k \in DOMAIN perms : k[1] = project_id})

delete_project(project_id) ==
    /\ UNCHANGED <<current_user, call, ret, pending>>
    /\ project_id \in DOMAIN projects
    /\ IF projects[project_id].user_id # current_user THEN Answer("danger")
       ELSE /\ delete_project_rows(project_id)
            /\ delete_project_owned(project_id)
            /\ flash' = "success"

\* -------------------------------------------------------------------- tasks
\* The form's sprint choices: "No Sprint" and the project's own sprints.
\* SelectField.pre_validate rejects any other value.
sprint_choices(project_id) == {NoSprint} \cup SprintsOf(project_id)

task_form_valid_any_sprint(project_id, form) ==
    /\ form.title_given
    /\ form.status \in Statuses

\* TaskForm.validate: title is required; status and sprint must be among the choices.
task_form_valid(project_id, form) ==
    /\ form.title_given
    /\ form.status \in Statuses
    /\ form.sprint_id \in sprint_choices(project_id)

create_task_for_any_member(project_id, form) ==
    /\ UNCHANGED <<current_user, call, ret, pending>>
    /\ project_id \in DOMAIN projects
    /\ IF ~is_project_member(projects[project_id], current_user)
       THEN Answer("danger")
       ELSE IF ~task_form_valid(project_id, form) THEN Answer("form_errors")
       ELSE /\ NextId(tasks) <= MaxTasks
            /\ tasks' = Put(tasks, NextId(tasks),
                            [project_id |-> project_id,
                             status |-> form.status,
                             completed |-> FALSE,
                             locked |-> FALSE,
                             sprint_id |-> form.sprint_id])
            /\ flash' = "success"
            /\ UNCHANGED <<projects, perms, sprints, subtasks>>

create_task(project_id, form) ==
    /\ UNCHANGED <<current_user, call, ret, pending>>
    /\ project_id \in DOMAIN projects
    /\ IF ~is_project_member(projects[project_id], current_user)
       THEN Answer("danger")
       ELSE IF ~user_can_edit_tasks(project_id, current_user)
       THEN Answer("danger")
       ELSE IF ~task_form_valid(project_id, form) THEN Answer("form_errors")
       ELSE /\ NextId(tasks) <= MaxTasks
            /\ tasks' = Put(tasks, NextId(tasks),
                            [project_id |-> project_id,
                             status |-> form.status,
                             completed |-> FALSE,
                             locked |-> FALSE,
                             sprint_id |-> form.sprint_id])
            /\ flash' = "success"
            /\ UNCHANGED <<projects, perms, sprints, subtasks>>

edit_task(task_id, form) ==
    /\ UNCHANGED <<current_user, call, ret, pending>>
    /\ task_id \in DOMAIN tasks
    /\ IF ~is_project_member(projects[tasks[task_id].project_id], current_user)
       THEN Answer("danger")
       ELSE IF ~user_can_modify_task(task_id, current_user)
       THEN Answer("danger")
       ELSE IF ~task_form_valid(tasks[task_id].project_id, form) THEN Answer("form_errors")
       ELSE /\ tasks' = [tasks EXCEPT
                   ![task_id].status = form.status,
                   ![task_id].sprint_id = form.sprint_id,
                   ![task_id].completed = (form.status = "done")]
            /\ flash' = "success"
            /\ UNCHANGED <<projects, perms, sprints, subtasks>>

lock_set(table, task_id) == [table EXCEPT ![task_id].locked = TRUE]

\* task.locked = not task.locked
lock_toggled(table, task_id) == [table EXCEPT ![task_id].locked = ~@]

toggle_task_lock(task_id) ==
    /\ UNCHANGED <<current_user, call, ret, pending>>
    /\ task_id \in DOMAIN tasks
    /\ IF projects[tasks[task_id].project_id].user_id # current_user
       THEN Answer("danger")
       ELSE /\ tasks' = lock_toggled(tasks, task_id)
            /\ flash' = IF tasks'[task_id].locked THEN "locked" ELSE "unlocked"
            /\ UNCHANGED <<projects, perms, sprints, subtasks>>

change_task_status(task_id, new_status) ==
    /\ UNCHANGED <<current_user, call, ret, pending>>
    /\ task_id \in DOMAIN tasks
    /\ IF ~user_can_modify_task(task_id, current_user) THEN Answer("json_403")
       ELSE IF new_status \notin {"todo", "in_progress", "done"}
       THEN Answer("json_400")
       ELSE /\ tasks' = [tasks EXCEPT
                   ![task_id].status = new_status,
                   ![task_id].completed = (new_status = "done")]
            /\ flash' = "json_200"
            /\ UNCHANGED <<projects, perms, sprints, subtasks>>

delete_task_unless_cannot_edit(task_id) ==
    /\ UNCHANGED <<current_user, call, ret, pending>>
    /\ task_id \in DOMAIN tasks
    /\ IF ~user_can_edit_tasks(tasks[task_id].project_id, current_user) THEN Answer("danger")
       ELSE /\ tasks' = Drop(tasks, {task_id})
            /\ subtasks' = Drop(subtasks, SubtasksOf(task_id))
            /\ flash' = "success"
            /\ UNCHANGED <<projects, perms, sprints>>

delete_task(task_id) ==
    /\ UNCHANGED <<current_user, call, ret, pending>>
    /\ task_id \in DOMAIN tasks
    /\ IF ~user_can_modify_task(task_id, current_user) THEN Answer("danger")
       ELSE /\ tasks' = Drop(tasks, {task_id})
            /\ subtasks' = Drop(subtasks, SubtasksOf(task_id))
            /\ flash' = "success"
            /\ UNCHANGED <<projects, perms, sprints>>

\* ----------------------------------------------------------------- subtasks
add_subtask(task_id, title_given) ==
    /\ UNCHANGED <<current_user, call, ret, pending>>
    /\ task_id \in DOMAIN tasks
    /\ IF ~user_can_modify_task(task_id, current_user) THEN Answer("danger")
       ELSE IF ~title_given THEN Answer("warning")
       ELSE /\ NextId(subtasks) <= MaxSubtasks
            /\ subtasks' = Put(subtasks, NextId(subtasks),
                               [task_id |-> task_id, completed |-> FALSE])
            /\ flash' = "success"
            /\ UNCHANGED <<projects, perms, sprints, tasks>>

\* subtask.completed = not subtask.completed
completion_toggled(table, subtask_id) == [table EXCEPT ![subtask_id].completed = ~@]

toggle_subtask(subtask_id) ==
    /\ UNCHANGED <<current_user, call, ret, pending>>
    /\ subtask_id \in DOMAIN subtasks
    /\ IF ~user_can_modify_task(subtasks[subtask_id].task_id, current_user)
       THEN Answer("danger")
       ELSE /\ subtasks' = completion_toggled(subtasks, subtask_id)
            /\ flash' = IF subtasks'[subtask_id].completed
                        THEN "subtask_completed" ELSE "subtask_incomplete"
            /\ UNCHANGED <<projects, perms, sprints, tasks>>

delete_subtask(subtask_id) ==
    /\ UNCHANGED <<current_user, call, ret, pending>>
    /\ subtask_id \in DOMAIN subtasks
    /\ IF ~user_can_modify_task(subtasks[subtask_id].task_id, current_user)
       THEN Answer("danger")
       ELSE /\ subtasks' = Drop(subtasks, {subtask_id})
            /\ flash' = "success"
            /\ UNCHANGED <<projects, perms, sprints, tasks>>

\* ------------------------------------------------------------------ members
\* A new ProjectMemberPermission row: every flag at its default.
new_member_permission == FALSE

add_member_owner_included(project_id, user_id) ==
    /\ UNCHANGED <<current_user, call, ret, pending>>
    /\ project_id \in DOMAIN projects
    /\ IF projects[project_id].user_id # current_user THEN Answer("danger")
       ELSE IF user_id = NoUser THEN Answer("danger")
       ELSE /\ projects' = [projects EXCEPT ![project_id].members = @ \cup {user_id}]
            /\ perms' = IF get_member_permissions(project_id, user_id) = None
                        THEN Put(perms, <<project_id, user_id>>, new_member_permission)
                        ELSE perms
            /\ flash' = "success"
            /\ UNCHANGED <<sprints, tasks, subtasks>>

\* user_id is NoUser when the form carries none.
add_member(project_id, user_id) ==
    /\ UNCHANGED <<current_user, call, ret, pending>>
    /\ project_id \in DOMAIN projects
    /\ IF projects[project_id].user_id # current_user THEN Answer("danger")
       ELSE IF user_id = NoUser THEN Answer("danger")
       ELSE IF user_id = current_user THEN Answer("info")
       ELSE /\ projects' = [projects EXCEPT ![project_id].members = @ \cup {user_id}]
            /\ perms' = IF get_member_permissions(project_id, user_id) = None
                        THEN Put(perms, <<project_id, user_id>>, new_member_permission)
                        ELSE perms
            /\ flash' = "success"
            /\ UNCHANGED <<sprints, tasks, subtasks>>

update_member_permissions_owner_written(project_id, user_id, can_edit_tasks) ==
    /\ UNCHANGED <<current_user, call, ret, pending>>
    /\ project_id \in DOMAIN projects
    /\ IF projects[project_id].user_id # current_user THEN Answer("danger")
       ELSE IF user_id = projects[project_id].user_id
       THEN /\ perms' = Put(perms, <<project_id, user_id>>, can_edit_tasks)
            /\ flash' = "warning"
            /\ UNCHANGED <<projects, sprints, tasks, subtasks>>
       ELSE IF user_id \notin projects[project_id].members THEN Answer("danger")
       ELSE /\ perms' = Put(perms, <<project_id, user_id>>, can_edit_tasks)
            /\ flash' = "success"
            /\ UNCHANGED <<projects, sprints, tasks, subtasks>>

update_member_permissions(project_id, user_id, can_edit_tasks) ==
    /\ UNCHANGED <<current_user, call, ret, pending>>
    /\ project_id \in DOMAIN projects
    /\ IF projects[project_id].user_id # current_user THEN Answer("danger")
       ELSE IF user_id = projects[project_id].user_id THEN Answer("warning")
       ELSE IF user_id \notin projects[project_id].members THEN Answer("danger")
       ELSE /\ perms' = Put(perms, <<project_id, user_id>>, can_edit_tasks)
            /\ flash' = "success"
            /\ UNCHANGED <<projects, sprints, tasks, subtasks>>

remove_member_keeping_permission(project_id, user_id) ==
    /\ UNCHANGED <<current_user, call, ret, pending>>
    /\ project_id \in DOMAIN projects
    /\ IF projects[project_id].user_id # current_user THEN Answer("danger")
       ELSE IF user_id \notin projects[project_id].members THEN Answer("none")
       ELSE /\ projects' = [projects EXCEPT ![project_id].members = @ \ {user_id}]
            /\ flash' = "success"
            /\ UNCHANGED <<perms, sprints, tasks, subtasks>>

remove_member(project_id, user_id) ==
    /\ UNCHANGED <<current_user, call, ret, pending>>
    /\ project_id \in DOMAIN projects
    /\ IF projects[project_id].user_id # current_user THEN Answer("danger")
       ELSE IF user_id \notin projects[project_id].members THEN Answer("none")
       ELSE /\ projects' = [projects EXCEPT ![project_id].members = @ \ {user_id}]
            /\ perms' = Drop(perms, {<<project_id, user_id>>})
            /\ flash' = "success"
            /\ UNCHANGED <<sprints, tasks, subtasks>>

\* ------------------------------------------------------------------ inputs
NoCall == [start_date |-> NoDate, end_date |-> NoDate, sprint_length_days |-> None]

\* Requests of the access-control scenario: projects without dates.
AccessProjectForms ==
    [name_given : BOOLEAN, start_date : {NoDate}, end_date : {NoDate},
     sprint_length_days : {None}]

AccessTaskForms ==
    {form \in [title_given : BOOLEAN, status : Statuses, sprint_id : {NoSprint}] :
        form.title_given \/ form.status = "todo"}

StatusInputs == Statuses \cup {"archived"}

\* The sprint form: a new name or none, a description or none.
SprintForms == [name : {<<>>, <<"renamed">>}, description : {<<>>, <<"text">>}]

\* Requests of the planning scenario: one session, dated projects, tasks in sprints.

PlanProjectForms ==
    [name_given : BOOLEAN, start_date : {NoDate} \cup Days, end_date : {NoDate} \cup Days,
     sprint_length_days : {None} \cup {Some(n) : n \in 0..MaxSprintLen}]

PlanTaskForms ==
    [title_given : {TRUE}, status : {"todo"}, sprint_id : 0..(MaxDay + 1)]

\* Arguments of build_sprints taken alone: any dates, any stored length.
BuildInputs ==
    [start_date : 0..BuildMaxDay, end_date : 0..BuildMaxDay,
     sprint_length_days : {None} \cup {Some(n) : n \in (-1)..BuildMaxLen}]

\* ----------------------------------------------------------- specifications
Init ==
    /\ projects = <<>>
    /\ perms = <<>>
    /\ sprints = <<>>
    /\ tasks = <<>>
    /\ subtasks = <<>>
    /\ current_user = 1
    /\ flash = "none"
    /\ call = NoCall
    /\ ret = <<>>
    /\ pending = [r \in Requests |-> NoProject]

Next ==
    \/ \E u \in Users : load_user(u)
    \/ \E form \in AccessProjectForms : create_project(form)
    \/ \E p \in ProjectIds, form \in AccessProjectForms : edit_project(p, form)
    \/ \E p \in ProjectIds : generate_sprints(p)
    \/ \E p \in ProjectIds, s \in 1..MaxDay, form \in SprintForms : update_sprint(p, s, form)
    \/ \E p \in ProjectIds : delete_project(p)
    \/ \E p \in ProjectIds, form \in AccessTaskForms : create_task(p, form)
    \/ \E t \in 1..MaxTasks, form \in AccessTaskForms : edit_task(t, form)
    \/ \E t \in 1..MaxTasks : toggle_task_lock(t)
    \/ \E t \in 1..MaxTasks, s \in StatusInputs : change_task_status(t, s)
    \/ \E t \in 1..MaxTasks : delete_task(t)
    \/ \E t \in 1..MaxTasks, title_given \in BOOLEAN : add_subtask(t, title_given)
    \/ \E s \in 1..MaxSubtasks : toggle_subtask(s)
    \/ \E s \in 1..MaxSubtasks : delete_subtask(s)
    \/ \E p \in ProjectIds, u \in Users \cup {NoUser} : add_member(p, u)
    \/ \E p \in ProjectIds, u \in Users, b \in BOOLEAN : update_member_permissions(p, u, b)
    \/ \E p \in ProjectIds, u \in Users : remove_member(p, u)

Spec == Init /\ [][Next]_vars

NextPlan ==
    \/ \E form \in PlanProjectForms : create_project(form)
    \/ \E p \in ProjectIds, form \in PlanProjectForms : edit_project(p, form)
    \/ \E p \in ProjectIds : generate_sprints(p)
    \/ \E p \in ProjectIds : delete_project(p)
    \/ \E p \in ProjectIds, form \in PlanTaskForms : create_task(p, form)
    \/ \E t \in 1..MaxTasks, form \in PlanTaskForms : edit_task(t, form)
    \/ \E t \in 1..MaxTasks : delete_task(t)

SpecPlan == Init /\ [][NextPlan]_vars

\* The membership scenario: the owner adds and removes members and sets their
\* flag, sessions switch, and tasks are created and moved through the statuses.
NextMembers ==
    \/ \E u \in Users : load_user(u)
    \/ \E form \in AccessProjectForms : create_project(form)
    \/ \E p \in ProjectIds, u \in Users \cup {NoUser} : add_member(p, u)
    \/ \E p \in ProjectIds, u \in Users, b \in BOOLEAN : update_member_permissions(p, u, b)
    \/ \E p \in ProjectIds, u \in Users : remove_member(p, u)
    \/ \E p \in ProjectIds, form \in AccessTaskForms : create_task(p, form)
    \/ \E t \in 1..MaxTasks, s \in StatusInputs : change_task_status(t, s)

SpecMembers == Init /\ [][NextMembers]_vars

\* Sprint generation by requests in flight together: one session sends several
\* generation requests (a double click, two tabs) for its project.
NextConcurrent ==
    \/ \E form \in PlanProjectForms : create_project(form)
    \/ \E p \in ProjectIds, form \in PlanTaskForms : create_task(p, form)
    \/ \E r \in Requests, p \in ProjectIds : begin_generate_sprints(r, p)
    \/ \E r \in Requests : finish_generate_sprints(r)

SpecConcurrent == Init /\ [][NextConcurrent]_vars

\* The sprint generator taken alone: build_sprints applied to one argument.
InitBuild ==
    /\ projects = <<>>
    /\ perms = <<>>
    /\ sprints = <<>>
    /\ tasks = <<>>
    /\ subtasks = <<>>
    /\ current_user = 1
    /\ flash = "none"
    /\ call \in BuildInputs
    /\ ret = <<>>
    /\ pending = [r \in Requests |-> NoProject]

call_build_sprints ==
    /\ ret = <<>>
    /\ ret' = <<build_sprints(call)>>
    /\ UNCHANGED <<store, current_user, flash, call, pending>>

NextBuild == call_build_sprints

SpecBuild == InitBuild /\ [][NextBuild]_vars

\* The completion percentage taken alone: a task with call.total subtasks of
\* which call.completed are completed.
SubtaskCounts ==
    {c \in [total : 0..MaxSubtaskCount, completed : 0..MaxSubtaskCount] :
        c.completed <= c.total}

InitPercent ==
    /\ projects = <<>>
    /\ perms = <<>>
    /\ sprints = <<>>
    /\ tasks = <<>>
    /\ subtasks = <<>>
    /\ current_user = 1
    /\ flash = "none"
    /\ call \in SubtaskCounts
    /\ ret = <<>>
    /\ pending = [r \in Requests |-> NoProject]

call_get_completion_percentage ==
    /\ ret = <<>>
    /\ ret' = <<get_completion_percentage(call.total, call.completed)>>
    /\ UNCHANGED <<store, current_user, flash, call, pending>>

NextPercent == call_get_completion_percentage

SpecPercent == InitPercent /\ [][NextPercent]_vars

\* The calendar taken alone.  The dates of the entities lie around the end of
\* January of year 1; the month parameter is any short string of digits,
\* hyphens and letters.
Window == CalendarFirstDay..(CalendarFirstDay + CalendarSpan)

MonthParams == UNION {[1..n -> Digits \cup {"-", "x"}] : n \in 0..MaxParamLen}

\* Any month parameter, for a project with or without a start date.
ParamRequests ==
    [project : [user_id : {1}, members : {{}}, start_date : {NoDate, CalendarFirstDay}],
     user : {1},
     today : {CalendarFirstDay + CalendarSpan},
     month_param : MonthParams,
     sprints : {<<[start_date |-> CalendarFirstDay,
                   end_date |-> CalendarFirstDay + CalendarSpan]>>},
     tasks : {<<[start_date |-> NoDate, end_date |-> NoDate, due_date |-> CalendarFirstDay]>>}]

\* Any sprint and any task dates, seen in January, in February or by default.
RangeRequests ==
    [project : [user_id : {1}, members : {{2}}, start_date : {NoDate}],
     user : {2},
     today : {CalendarFirstDay},
     month_param : {<<>>, <<"1", "-", "1">>, <<"1", "-", "2">>},
     sprints : {<<row>> : row \in {r \in [start_date : Window, end_date : Window] :
                                       r.start_date <= r.end_date}},
     tasks : {<<row>> : row \in [start_date : {NoDate} \cup Window,
                                   end_date : {NoDate} \cup Window,
                                   due_date : {NoDate} \cup Window]}]

\* A user who is neither the owner nor a member.
StrangerRequests ==
    [project : [user_id : {1}, members : {{}}, start_date : {NoDate}],
     user : {2},
     today : {CalendarFirstDay},
     month_param : {<<>>},
     sprints : {<<>>},
     tasks : {<<>>}]

InitCalendar ==
    /\ projects = <<>>
    /\ perms = <<>>
    /\ sprints = <<>>
    /\ tasks = <<>>
    /\ subtasks = <<>>
    /\ current_user = 1
    /\ flash = "none"
    /\ call \in ParamRequests \cup RangeRequests \cup StrangerRequests
    /\ ret = <<>>
    /\ pending = [r \in Requests |-> NoProject]

call_project_calendar ==
    /\ ret = <<>>
    /\ ret' = <<project_calendar(call)>>
    /\ UNCHANGED <<store, current_user, flash, call, pending>>

NextCalendar == call_project_calendar

SpecCalendar == InitCalendar /\ [][NextCalendar]_vars

\* =================================================================== claims

\* A well-formed argument of the generator: both dates, start <= end, length >= 1.
ValidBuildCall ==
    /\ call.start_date # NoDate
    /\ call.end_date # NoDate
    /\ call.start_date <= call.end_date
    /\ call.sprint_length_days # None
    /\ call.sprint_length_days[1] >= 1

\* C1: for every start <= end and every sprint length >= 1 the sprints
\* build_sprints returns are ordered by start date, the first starts at start,
\* the last ends exactly at end, each starts the day after the previous one
\* ends, and each spans at most sprint-length days.
C1_SprintsPartitionRange ==
    (ret # <<>> /\ ValidBuildCall) =>
        LET result == ret[1]
            n == Len(result)
        IN  /\ n >= 1
            /\ result[1].start_date = call.start_date
            /\ result[n].end_date = call.end_date
            /\ \A i \in 1..n :
                   /\ result[i].start_date <= result[i].end_date
                   /\ result[i].end_date - result[i].start_date + 1
                          <= call.sprint_length_days[1]
            /\ \A i \in 1..(n - 1) :
                   /\ result[i + 1].start_date = result[i].end_date + 1
                   /\ result[i].start_date < result[i + 1].start_date

\* Reached: a range cut into several sprints, the last one shorter than the rest.
C1_Witness ==
    /\ ret # <<>>
    /\ ValidBuildCall
    /\ Len(ret[1]) >= 2
    /\ LET last == ret[1][Len(ret[1])] IN
           last.end_date - last.start_date + 1 < call.sprint_length_days[1]

\* C2: build_sprints returns the empty sequence whenever the start date, the
\* end date or the sprint length is absent, or the sprint length is below 1.
C2_MalformedGivesEmpty ==
    (/\ ret # <<>>
     /\ \/ call.start_date = NoDate
        \/ call.end_date = NoDate
        \/ call.sprint_length_days = None
        \/ call.sprint_length_days[1] < 1)
    => ret[1] = <<>>

\* Reached: dates that would give sprints, refused for a negative length alone.
C2_Witness ==
    /\ ret = << <<>> >>
    /\ call.start_date # NoDate
    /\ call.end_date # NoDate
    /\ call.start_date < call.end_date
    /\ call.sprint_length_days = Some(-1)

\* The flag the owner set for a member: the permission row exists and can_edit_tasks is true.
HasEditFlag(project_id, user) ==
    /\ <<project_id, user>> \in DOMAIN perms
    /\ perms[<<project_id, user>>]

\* C3: user_can_edit_tasks is true for the project's owner, false for a user
\* who is neither the owner nor a member, and for a member who is not the
\* owner it is true exactly when a permission row for (project, user) exists
\* with its can-edit flag set.
C3_CanEditTasksByCases ==
    \A p \in DOMAIN projects : \A u \in Users :
        LET project == projects[p] IN
        /\ u = project.user_id => user_can_edit_tasks(p, u)
        /\ (u # project.user_id /\ u \notin project.members) => ~user_can_edit_tasks(p, u)
        /\ (u # project.user_id /\ u \in project.members) =>
               (user_can_edit_tasks(p, u) <=> HasEditFlag(p, u))

\* Reached: a member who was added and not yet granted the flag, so that the
\* answer for a member rests on the flag and not on membership.
C3_Witness ==
    \E p \in DOMAIN projects : \E u \in projects[p].members :
        /\ u # projects[p].user_id
        /\ <<p, u>> \in DOMAIN perms
        /\ ~perms[<<p, u>>]

\* C4: user_can_modify_task is true for the owner of the task's project even
\* when the task is locked, false for everyone else when the task is locked
\* whatever the permission flags are, and otherwise equal to
\* user_can_edit_tasks on the task's project.
C4_CanModifyTaskByCases ==
    \A t \in DOMAIN tasks : \A u \in Users :
        LET task == tasks[t]
            owner == projects[task.project_id].user_id
        IN  /\ u = owner => user_can_modify_task(t, u)
            /\ (u # owner /\ task.locked) => ~user_can_modify_task(t, u)
            /\ (u # owner /\ ~task.locked) =>
                   (user_can_modify_task(t, u) <=> user_can_edit_tasks(task.project_id, u))

\* Reached: a locked task in a project where a member holds the edit flag.
C4_Witness ==
    \E t \in DOMAIN tasks : \E u \in Users :
        /\ tasks[t].locked
        /\ u # projects[tasks[t].project_id].user_id
        /\ u \in projects[tasks[t].project_id].members
        /\ HasEditFlag(tasks[t].project_id, u)

\* The rows of a task's subtasks.
SubtaskRows(task_id) == [s \in SubtasksOf(task_id) |-> subtasks[s]]

\* C5: while a task is locked, no request of a user other than the owner of
\* its project changes the task's fields or status, deletes it, or adds,
\* toggles or deletes one of its subtasks.
C5_LockedTaskOnlyOwnerWrites ==
    [][\/ tasks' = tasks /\ subtasks' = subtasks
       \/ \A t \in DOMAIN tasks :
              (tasks[t].locked /\ current_user # projects[tasks[t].project_id].user_id) =>
                  /\ t \in DOMAIN tasks'
                  /\ tasks'[t] = tasks[t]
                  /\ SubtaskRows(t)' = SubtaskRows(t)]_vars

\* Reached: a member who holds the edit flag was refused a status change on a
\* locked task that has a subtask.
C5_Witness ==
    \E t \in DOMAIN tasks :
        /\ tasks[t].locked
        /\ SubtasksOf(t) # {}
        /\ current_user # projects[tasks[t].project_id].user_id
        /\ HasEditFlag(tasks[t].project_id, current_user)
        /\ flash = "json_403"

\* May current_user, who sends the request, write tasks of the project now?
MayWriteTasks(project_id) ==
    \/ current_user = projects[project_id].user_id
    \/ /\ current_user \in projects[project_id].members
       /\ HasEditFlag(project_id, current_user)

\* C6: a task creation, edit, status change or deletion, or a subtask add,
\* toggle or deletion, issued by a user who is not the owner takes effect only
\* if at the time of the request the user is a member of the task's project
\* whose permission row has the can-edit flag set.
C6_WritesNeedMembershipAndFlag ==
    [][/\ \/ tasks' = tasks
          \/ \A t \in DOMAIN tasks \cup DOMAIN tasks' :
                 (t \notin DOMAIN tasks \/ t \notin DOMAIN tasks' \/ tasks'[t] # tasks[t]) =>
                     MayWriteTasks(IF t \in DOMAIN tasks THEN tasks[t].project_id
                                   ELSE tasks'[t].project_id)
       /\ \/ subtasks' = subtasks
          \/ \A s \in DOMAIN subtasks \cup DOMAIN subtasks' :
                 (s \notin DOMAIN subtasks \/ s \notin DOMAIN subtasks'
                     \/ subtasks'[s] # subtasks[s]) =>
                     MayWriteTasks(tasks[IF s \in DOMAIN subtasks THEN subtasks[s].task_id
                                         ELSE subtasks'[s].task_id].project_id)]_vars

\* Reached: a member who holds the flag has changed the status of a task.
C6_Witness ==
    \E t \in DOMAIN tasks :
        /\ current_user # projects[tasks[t].project_id].user_id
        /\ current_user \in projects[tasks[t].project_id].members
        /\ HasEditFlag(tasks[t].project_id, current_user)
        /\ flash = "json_200"

\* The sprint rows of a project, and the sprint each of its tasks refers to.
SprintRows(project_id) == [s \in SprintsOf(project_id) |-> sprints[s]]

TaskRefs(project_id) == [t \in TasksOf(project_id) |-> tasks[t].sprint_id]

\* The rows build_sprints gives for the project, without their ids.
GeneratedRanges(project) ==
    LET generated == build_sprints(project) IN
    {[index |-> generated[i].index, start_date |-> generated[i].start_date,
      end_date |-> generated[i].end_date] : i \in 1..Len(generated)}

StoredRanges(project_id) ==
    {[index |-> sprints[s].index, start_date |-> sprints[s].start_date,
      end_date |-> sprints[s].end_date] : s \in SprintsOf(project_id)}

\* C7: a sprint-generation request either fully applies (the old sprints are
\* gone, the project's tasks are detached, the newly generated sprints are
\* present) or does not apply at all (sprints and task sprint references as
\* before); a request that ends with a warning leaves both as they were.
C7_GenerateAllOrNothing ==
    [][\A p \in DOMAIN projects :
          flash' \in {"generated", "warning", "unable"} =>
              \/ /\ SprintRows(p)' = SprintRows(p)
                 /\ TaskRefs(p)' = TaskRefs(p)
              \/ /\ flash' = "generated"
                 /\ StoredRanges(p)' = GeneratedRanges(projects[p])
                 /\ StoredRanges(p)' # {}
                 /\ \A t \in TasksOf(p) : t \in DOMAIN tasks' /\ tasks'[t].sprint_id = NoSprint]_vars

\* A step in which generate_sprints went past its checks for the project: it
\* ended with its success message, or with the warning it gives after its delete.
RegenerationStep(project_id) ==
    \/ flash' = "generated"
    \/ flash' = "unable"

\* C8: after a sprint regeneration for a project, every task of the project
\* is kept with its sprint reference cleared and nothing else changed, and no
\* task holds the id of a sprint the regeneration deleted.
C8_RegenerationDetachesTasks ==
    [][\A p \in DOMAIN projects :
          RegenerationStep(p) =>
              /\ DOMAIN tasks' = DOMAIN tasks
              /\ \A t \in TasksOf(p) : tasks'[t] = [tasks[t] EXCEPT !.sprint_id = NoSprint]
              /\ \A t \in DOMAIN tasks' : tasks'[t].sprint_id \notin SprintsOf(p)]_vars

\* Reached: sprints were generated for a project that has a task and is cut
\* into several sprints.
C8_Witness ==
    \E p \in DOMAIN projects :
        /\ flash = "generated"
        /\ TasksOf(p) # {}
        /\ Cardinality(SprintsOf(p)) >= 2
        /\ \A t \in TasksOf(p) : tasks[t].sprint_id = NoSprint

\* The stored sprints of the project are contiguous, non-overlapping inclusive
\* ranges that cover exactly [start_date, end_date].
CoversProjectRange(project_id) ==
    LET project == projects[project_id]
        rows == SprintsOf(project_id)
    IN  /\ \E s \in rows : sprints[s].start_date = project.start_date
        /\ \E s \in rows : sprints[s].end_date = project.end_date
        /\ \A s \in rows :
               /\ sprints[s].start_date <= sprints[s].end_date
               /\ sprints[s].start_date >= project.start_date
               /\ sprints[s].end_date <= project.end_date
               /\ \/ sprints[s].end_date = project.end_date
                  \/ \E n \in rows : sprints[n].start_date = sprints[s].end_date + 1
        /\ \A s, n \in rows :
               s # n => \/ sprints[s].end_date < sprints[n].start_date
                        \/ sprints[n].end_date < sprints[s].start_date

\* C9: in every state reached through project creation, project edit and
\* sprint generation, the sprints stored for a project cover exactly its
\* current [start_date, end_date] contiguously and without overlap, or the
\* project has no sprints.
C9_StoredSprintsCoverProject ==
    \A p \in DOMAIN projects : SprintsOf(p) = {} \/ CoversProjectRange(p)

\* C10: in every reachable state a task's completed flag is true exactly when
\* its status is 'done'.
C10_CompletedIffDone ==
    \A t \in DOMAIN tasks : tasks[t].completed <=> (tasks[t].status = "done")

\* C11: after any sequence of add-member, remove-member and set-permissions
\* requests the owner of a project is not in the project's member set, and a
\* permission row for (project, user) exists only when the user is a current
\* member of the project who is not its owner.
C11_OwnerNeverMemberPermsOnlyForMembers ==
    /\ \A p \in DOMAIN projects : projects[p].user_id \notin projects[p].members
    /\ \A k \in DOMAIN perms :
           /\ k[1] \in DOMAIN projects
           /\ k[2] \in projects[k[1]].members
           /\ k[2] # projects[k[1]].user_id

\* Reached: the owner asked to add themself (answered with the "already the
\* project owner" notice) while another user is a member holding the flag.
C11_Witness ==
    \E p \in DOMAIN projects : \E u \in projects[p].members :
        /\ current_user = projects[p].user_id
        /\ flash = "info"
        /\ HasEditFlag(p, u)

\* C12: removing a member deletes the member's permission row, and adding a
\* user who is not a member creates a permission row whose can-edit flag is
\* false whatever the flag was before a removal, so that the re-added member
\* cannot edit tasks until the owner sets the flag again.
C12_RemovalDeletesPermissionReAddIsFresh ==
    [][\A p \in DOMAIN projects : \A u \in Users :
          /\ (u \in projects[p].members /\ u \notin projects'[p].members) =>
                 <<p, u>> \notin DOMAIN perms'
          /\ (u \notin projects[p].members /\ u \in projects'[p].members) =>
                 /\ <<p, u>> \in DOMAIN perms'
                 /\ ~perms'[<<p, u>>]
                 /\ ~user_can_edit_tasks(p, u)']_vars

\* Reached: a member without the flag was refused a task creation in a project
\* that already holds a finished task.
C12_Witness ==
    \E p \in DOMAIN projects : \E t \in TasksOf(p) :
        /\ current_user \in projects[p].members
        /\ <<p, current_user>> \in DOMAIN perms
        /\ ~perms[<<p, current_user>>]
        /\ tasks[t].status = "done"
        /\ flash = "danger"

\* C13: get_completion_percentage returns 0 for a task with no subtasks, and
\* for total > 0 subtasks of which c are completed the integer truncation of
\* 100*c/total; the result is an integer in 0..100 and is 100 exactly when
\* all subtasks are completed.
C13_PercentageIsTruncation ==
    ret # <<>> =>
        /\ ret[1] \in 0..100
        /\ call.total = 0 => ret[1] = 0
        /\ call.total > 0 =>
               /\ ret[1] = (100 * call.completed) \div call.total
               /\ ret[1] = 100 <=> call.completed = call.total

\* C14: for total > 0 subtasks of which c are completed the completion
\* percentage is the integer nearest to 100*c/total, and it is 0 for a task
\* with no subtasks.
C14_PercentageIsNearestInteger ==
    ret # <<>> =>
        /\ call.total = 0 => ret[1] = 0
        /\ call.total > 0 =>
               LET off == ret[1] * call.total - 100 * call.completed IN
               2 * (IF off < 0 THEN -off ELSE off) <= call.total

\* C14, as the code has it: the percentage is the truncated floating-point
\* product (c/total)*100.  It never exceeds 100*c/total and is never rounded
\* up; it is the truncation of 100*c/total, except that where 100*c/total is
\* a whole number the floating-point product may fall just short of it and
\* the percentage is then one less; it is 0 for a task with no subtasks.
C14_PercentageIsTruncatedFloatProduct ==
    ret # <<>> =>
        /\ call.total = 0 => ret[1] = 0
        /\ call.total > 0 =>
               LET exact == (100 * call.completed) \div call.total IN
               /\ ret[1] <= exact
               /\ ret[1] >= exact - 1
               /\ ret[1] = exact - 1 => (100 * call.completed) % call.total = 0

\* Reached: 2 of 3 subtasks completed gives 66, where the nearest integer is 67.
C14_Witness ==
    /\ call = [total |-> 3, completed |-> 2]
    /\ ret = <<66>>

\* The days on which the event map holds the entry.
EntryDays(events, entry) ==
    {d \in DOMAIN events : \E i \in 1..Len(events[d]) : events[d][i] = entry}

\* The days of [start, end] that lie in the month the calendar shows.
DaysInMonthAndRange(shown, start, end) ==
    {d \in start..end :
        /\ d >= date(shown.current_year, shown.current_month, 1)
        /\ d <= date(shown.current_year, shown.current_month,
                     days_in_month(shown.current_year, shown.current_month))}

EffectiveStart(task) ==
    IF task.start_date # NoDate THEN task.start_date ELSE task.due_date

EffectiveEnd(task) ==
    IF task.end_date # NoDate THEN task.end_date
    ELSE IF task.due_date # NoDate THEN task.due_date
    ELSE task.start_date

\* C15: the calendar's event map holds an entry for a sprint, or for a task
\* with effective range start = start_date or due_date, end = end_date or
\* due_date or start_date, on exactly the days that lie both in the entity's
\* range and in the month shown; a task with an effective side undefined has
\* no entry, and no entry lies on a day outside the month.
C15_EventsClippedToMonth ==
    (ret # <<>> /\ ~ret[1].denied) =>
        LET shown == ret[1] IN
        /\ \A i \in 1..Len(call.sprints) :
               EntryDays(shown.events, [type |-> "sprint", index |-> i])
                   = DaysInMonthAndRange(shown, call.sprints[i].start_date,
                                         call.sprints[i].end_date)
        /\ \A i \in 1..Len(call.tasks) :
               EntryDays(shown.events, [type |-> "task", index |-> i])
                   = IF EffectiveStart(call.tasks[i]) = NoDate
                        \/ EffectiveEnd(call.tasks[i]) = NoDate
                     THEN {}
                     ELSE DaysInMonthAndRange(shown, EffectiveStart(call.tasks[i]),
                                              EffectiveEnd(call.tasks[i]))
        /\ \A d \in DOMAIN shown.events :
               /\ d \in DaysInMonthAndRange(shown, d, d)
               /\ shown.events[d] # <<>>

\* Reached: a task that starts in January and ends in February, seen in
\* February: its entries are on the February days of its range alone.
C15_Witness ==
    /\ ret # <<>>
    /\ ~ret[1].denied
    /\ ret[1].current_month = 2
    /\ Len(call.tasks) = 1
    /\ call.tasks[1].start_date # NoDate
    /\ month_of(call.tasks[1].start_date) = 1
    /\ call.tasks[1].end_date # NoDate
    /\ month_of(call.tasks[1].end_date) = 2
    /\ EntryDays(ret[1].events, [type |-> "task", index |-> 1])
           = date(1, 2, 1)..call.tasks[1].end_date

\* The reference date of the request: the project's start date, or today.
RefDate == IF call.project.start_date # NoDate THEN call.project.start_date ELSE call.today

\* The month parameter names a month: a numeric year, a hyphen, a numeric
\* month, and the two make a real calendar month.
ParamNamesMonth ==
    LET parts == split(call.month_param, 1, <<>>, <<>>) IN
    /\ Len(parts) >= 2
    /\ int(parts[1]) # None
    /\ int(parts[2]) # None
    /\ date_valid(int(parts[1])[1], int(parts[2])[1])

\* C16: when the month parameter is invalid (non-numeric year or month,
\* missing month part, or not a real calendar month) the month shown is the
\* year and month of the reference date; never a year from the parameter with
\* a month from the reference date.
C16_InvalidMonthFallsBackToReference ==
    (ret # <<>> /\ ~ret[1].denied /\ ~ParamNamesMonth) =>
        /\ ret[1].current_year = year_of(RefDate)
        /\ ret[1].current_month = month_of(RefDate)

\* The answers of a request that a permission check or the validation refused.
Rejections == {"danger", "json_403", "json_400", "form_errors", "warning"}

\* C17: every request rejected by a permission check or by validation leaves
\* the persisted state (projects, members, permission rows, sprints, tasks,
\* subtasks) exactly as it was: the owner-only routes called by a user who is
\* not the owner, a permissions update that targets the owner, a status
\* outside {todo, in_progress, done}, an add-subtask with an empty title.
C17_RejectedRequestLeavesStore ==
    [][flash' \in Rejections => store' = store]_vars

\* Reached: a member who holds the edit flag was refused (an owner-only route,
\* or a write to a locked task) in a project that holds a task with a subtask.
C17_Witness ==
    \E p \in DOMAIN projects :
        /\ current_user # projects[p].user_id
        /\ HasEditFlag(p, current_user)
        /\ flash = "danger"
        /\ \E t \in TasksOf(p) : SubtasksOf(t) # {} /\ ~tasks[t].locked

\* C18: two consecutive successful lock toggles by the owner on a task return
\* its locked flag to its original value, and two consecutive successful
\* toggles on a subtask return its completed flag to its original value, with
\* no other field of the task or subtask changed.  For every toggle a request
\* makes, the toggle that a second request makes on the state reached gives
\* back the rows as they were before the first.
C18_DoubleToggleRestores ==
    [][/\ flash' \in {"locked", "unlocked"} =>
              \E t \in DOMAIN tasks :
                  /\ tasks' = lock_toggled(tasks, t)
                  /\ tasks'[t].locked # tasks[t].locked
                  /\ lock_toggled(tasks', t) = tasks
                  /\ subtasks' = subtasks
       /\ flash' \in {"subtask_completed", "subtask_incomplete"} =>
              \E s \in DOMAIN subtasks :
                  /\ subtasks' = completion_toggled(subtasks, s)
                  /\ subtasks'[s].completed # subtasks[s].completed
                  /\ completion_toggled(subtasks', s) = subtasks
                  /\ tasks' = tasks]_vars

\* Reached: the owner has locked a task and unlocked it again, and its subtask
\* has been marked completed: the task is unlocked as it was created.
C18_Witness ==
    \E t \in DOMAIN tasks :
        /\ flash = "unlocked"
        /\ current_user = projects[tasks[t].project_id].user_id
        /\ ~tasks[t].locked
        /\ \E s \in SubtasksOf(t) : subtasks[s].completed

\* C19: when two sprint-generation requests for the same project interleave
\* at their commit points, the project's sprints are still one contiguous,
\* non-overlapping cover of [start_date, end_date] with no sprint twice, and
\* no other request can see the project with its old sprints deleted and the
\* new ones not yet inserted.
C19_InterleavedGenerationKeepsOneCover ==
    \A p \in DOMAIN projects :
        /\ SprintsOf(p) = {} \/ CoversProjectRange(p)
        /\ Cardinality(StoredRanges(p)) = Cardinality(SprintsOf(p))
        /\ (\E r \in Requests : pending[r] = p) =>
               (build_sprints(projects[p]) # <<>> => SprintsOf(p) # {})

====
